---------------------------- MODULE Spec2Model ----------------------------
(***************************************************************************)
(* Template rendering and chain resolution of slumber                      *)
(* (src/src/template.rs), with the request command that builds the         *)
(* template context (src/src/cli/request.rs).                              *)
(*                                                                         *)
(* Strings are sequences of one-character strings, so that the regex scan, *)
(* the split on '.', and the JSON text of a value are computed character   *)
(* by character.  Offsets are 0-based byte offsets as in the Rust code:    *)
(* the slice s[a..b] is SubSeq(s, a + 1, b).                               *)
(***************************************************************************)
EXTENDS Integers, Sequences, FiniteSets, TLC

(***************************************************************************)
(* Bounds of the model                                                     *)
(***************************************************************************)
\* a template is the concatenation of at most MaxPieces pieces
MaxPieces == 3
\* a raw key text is the concatenation of at most MaxKeyPieces pieces
MaxKeyPieces == 4
\* the history store holds at most MaxRecords records
MaxRecords == 2
\* the recursion budget of a top-level build is at most MaxBudget
MaxBudget == 2
\* the length of the buffer the strings of a borrowed error point into
MaxBuffer == 3

(***************************************************************************)
(* Characters                                                              *)
(***************************************************************************)
Letters == {"a", "b", "c", "d", "e", "f", "g", "h", "i", "j", "k", "l", "m",
            "n", "o", "p", "q", "r", "s", "t", "u", "v", "w", "x", "y", "z"}
Digits == {"0", "1", "2", "3", "4", "5", "6", "7", "8", "9"}
\* \s of the template regex
WhiteSpace == {" "}
\* [\w\d._-] of the template regex
KeyChars == Letters \cup Digits \cup {".", "_", "-"}

Slice(s, a, b) == SubSeq(s, a + 1, b)

RECURSIVE Concat(_)
Concat(ss) == IF ss = <<>> THEN <<>> ELSE Head(ss) \o Concat(Tail(ss))

(***************************************************************************)
(* Results, options and errors                                             *)
(***************************************************************************)
None == [some |-> FALSE, v |-> <<>>]
Some(x) == [some |-> TRUE, v |-> x]

NoError == [variant |-> "None", s |-> <<>>, path |-> <<>>]
InvalidKey(key) == [variant |-> "InvalidKey", s |-> key, path |-> <<>>]
FieldUnknown(field) == [variant |-> "FieldUnknown", s |-> field, path |-> <<>>]
ChainUnknown(chain_id) == [variant |-> "ChainUnknown", s |-> chain_id, path |-> <<>>]
ChainNoResponse(chain_id) == [variant |-> "ChainNoResponse", s |-> chain_id, path |-> <<>>]
ChainJsonPath(chain_id, path) == [variant |-> "ChainJsonPath", s |-> chain_id, path |-> path]
ChainJsonResponse(chain_id) == [variant |-> "ChainJsonResponse", s |-> chain_id, path |-> <<>>]
ChainInvalidResult(chain_id) == [variant |-> "ChainInvalidResult", s |-> chain_id, path |-> <<>>]
\* History(anyhow::Error): the history store's own failure, wrapped
HistoryError == [variant |-> "History", s |-> <<>>, path |-> <<>>]
\* the two errors of a chain that has to trigger its source recipe
TriggerDisabled == [variant |-> "TriggerDisabled", s |-> <<>>, path |-> <<>>]
RecursionLimitExceeded == [variant |-> "RecursionLimitExceeded", s |-> <<>>, path |-> <<>>]

\* Result<String, TemplateError>: val is a string
Ok(x) == [ok |-> TRUE, val |-> x, err |-> NoError]
Err(e) == [ok |-> FALSE, val |-> <<>>, err |-> e]
\* the call has not returned
NotReturned == [ok |-> FALSE, val |-> <<>>, err |-> NoError]

(***************************************************************************)
(* TEMPLATE_REGEX  \{\{\s*([\w\d._-]+)\s*\}\}                             *)
(***************************************************************************)
\* first offset >= i whose character is not in class (Len(s) when none)
RECURSIVE SkipWhile(_, _, _)
SkipWhile(s, i, class) ==
    IF i < Len(s) /\ s[i + 1] \in class THEN SkipWhile(s, i + 1, class) ELSE i

NoMatch == [found |-> FALSE, start |-> 0, end |-> 0, kstart |-> 0, kend |-> 0]

\* the match with a key class that has no '.'
MatchAtNoDot(s, i) ==
    LET b == SkipWhile(s, i + 2, WhiteSpace)
        c == SkipWhile(s, b, KeyChars \ {"."})
        d == SkipWhile(s, c, WhiteSpace)
    IN  IF /\ i + 2 <= Len(s)
           /\ s[i + 1] = "{"
           /\ s[i + 2] = "{"
           /\ c > b
           /\ d + 2 <= Len(s)
           /\ s[d + 1] = "}"
           /\ s[d + 2] = "}"
        THEN [found |-> TRUE, start |-> i, end |-> d + 2, kstart |-> b, kend |-> c]
        ELSE NoMatch

\* the match of the regex that starts at offset i, if there is one.  The
\* three classes \s, [\w\d._-] and '}' are disjoint, so greedy repetition
\* never backtracks and the match at a given start is unique.
MatchAt(s, i) ==
    LET b == SkipWhile(s, i + 2, WhiteSpace)
        c == SkipWhile(s, b, KeyChars)
        d == SkipWhile(s, c, WhiteSpace)
    IN  IF /\ i + 2 <= Len(s)
           /\ s[i + 1] = "{"
           /\ s[i + 2] = "{"
           /\ c > b
           /\ d + 2 <= Len(s)
           /\ s[d + 1] = "}"
           /\ s[d + 2] = "}"
        THEN [found |-> TRUE, start |-> i, end |-> d + 2, kstart |-> b, kend |-> c]
        ELSE NoMatch

\* one step of re.captures_iter: the leftmost match starting at or after
\* offset from
RECURSIVE FindMatch(_, _)
FindMatch(s, from) ==
    IF from >= Len(s) THEN NoMatch
    ELSE IF MatchAt(s, from).found THEN MatchAt(s, from)
    ELSE FindMatch(s, from + 1)

(***************************************************************************)
(* TemplateKey                                                             *)
(***************************************************************************)
Field(name) == [kind |-> "Field", name |-> name]
Chain(chain_id) == [kind |-> "Chain", name |-> chain_id]
NoKey == [kind |-> "None", name |-> <<>>]

\* Result<TemplateKey, TemplateError>
OkKey(k) == [ok |-> TRUE, key |-> k, err |-> NoError]
ErrKey(e) == [ok |-> FALSE, key |-> NoKey, err |-> e]

\* offset of the first sep at or after offset i (Len(s) when none)
RECURSIVE IndexOf(_, _, _)
IndexOf(s, i, sep) ==
    IF i < Len(s) /\ s[i + 1] # sep THEN IndexOf(s, i + 1, sep) ELSE i

\* s.split('.'): the segments between the dots, always at least one
RECURSIVE Split(_, _)
Split(s, sep) ==
    LET i == IndexOf(s, 0, sep)
    IN  IF i >= Len(s) THEN <<s>>
        ELSE <<Slice(s, 0, i)>> \o Split(Slice(s, i + 1, Len(s)), sep)

CHAINS == <<"c", "h", "a", "i", "n", "s">>

\* TemplateKey::parse without the test of the first segment: any two
\* segments make a chain key
ParseKeyAnyPrefix(s) ==
    LET segs == Split(s, ".")
    IN  IF Len(segs) = 1 THEN OkKey(Field(segs[1]))
        ELSE IF Len(segs) = 2 THEN OkKey(Chain(segs[2]))
        ELSE ErrKey(InvalidKey(s))

\* TemplateKey::parse
ParseKey(s) ==
    LET segs == Split(s, ".")
    IN  IF Len(segs) = 1 THEN OkKey(Field(segs[1]))
        ELSE IF Len(segs) = 2 /\ segs[1] = CHAINS THEN OkKey(Chain(segs[2]))
        ELSE ErrKey(InvalidKey(s))

(***************************************************************************)
(* serde_json::Value, its compact text (Display) and from_str              *)
(***************************************************************************)
JNull == [t |-> "Null", s |-> <<>>, n |-> 0, b |-> FALSE, keys |-> <<>>, elems |-> <<>>]
JBool(b) == [t |-> "Bool", s |-> <<>>, n |-> 0, b |-> b, keys |-> <<>>, elems |-> <<>>]
JNumber(n) == [t |-> "Number", s |-> <<>>, n |-> n, b |-> FALSE, keys |-> <<>>, elems |-> <<>>]
JString(s) == [t |-> "String", s |-> s, n |-> 0, b |-> FALSE, keys |-> <<>>, elems |-> <<>>]
JArray(elems) == [t |-> "Array", s |-> <<>>, n |-> 0, b |-> FALSE, keys |-> <<>>, elems |-> elems]
\* the map of an object is a BTreeMap: keys[i] maps to elems[i], keys ascending
JObject(keys, elems) == [t |-> "Object", s |-> <<>>, n |-> 0, b |-> FALSE, keys |-> keys, elems |-> elems]

DigitSeq == <<"0", "1", "2", "3", "4", "5", "6", "7", "8", "9">>

RECURSIVE ItoA(_)
ItoA(n) == IF n < 10 THEN <<DigitSeq[n + 1]>> ELSE ItoA(n \div 10) \o <<DigitSeq[(n % 10) + 1]>>

DigitValue(c) == CHOOSE d \in 0..9 : DigitSeq[d + 1] = c

\* a string's characters with '"' and '\' escaped
RECURSIVE Escape(_)
Escape(s) ==
    IF s = <<>> THEN <<>>
    ELSE (IF Head(s) \in {"\"", "\\"} THEN <<"\\", Head(s)>> ELSE <<Head(s)>>) \o Escape(Tail(s))

Quoted(s) == <<"\"">> \o Escape(s) \o <<"\"">>

\* Value::to_string: compact JSON, no whitespace, object keys in map order
RECURSIVE ToJson(_)
RECURSIVE ElemsToJson(_, _)
RECURSIVE MembersToJson(_, _, _)
ToJson(v) ==
    CASE v.t = "Null" -> <<"n", "u", "l", "l">>
      [] v.t = "Bool" -> IF v.b THEN <<"t", "r", "u", "e">> ELSE <<"f", "a", "l", "s", "e">>
      [] v.t = "Number" -> ItoA(v.n)
      [] v.t = "String" -> Quoted(v.s)
      [] v.t = "Array" -> <<"[">> \o ElemsToJson(v.elems, 1) \o <<"]">>
      [] v.t = "Object" -> <<"{">> \o MembersToJson(v.keys, v.elems, 1) \o <<"}">>
ElemsToJson(elems, i) ==
    IF i > Len(elems) THEN <<>>
    ELSE (IF i > 1 THEN <<",">> ELSE <<>>) \o ToJson(elems[i]) \o ElemsToJson(elems, i + 1)
MembersToJson(keys, elems, i) ==
    IF i > Len(keys) THEN <<>>
    ELSE (IF i > 1 THEN <<",">> ELSE <<>>) \o Quoted(keys[i]) \o <<":">>
         \o ToJson(elems[i]) \o MembersToJson(keys, elems, i + 1)

\* the characters of the model in ASCII order, for the order of map keys
AsciiOrder == <<" ", "!", "\"", "$", "*", ",", "-", ".",
                "0", "1", "2", "3", "4", "5", "6", "7", "8", "9", ":",
                "[", "\\", "]", "_",
                "a", "b", "c", "d", "e", "f", "g", "h", "i", "j", "k", "l", "m",
                "n", "o", "p", "q", "r", "s", "t", "u", "v", "w", "x", "y", "z",
                "{", "}">>
Ord(c) == CHOOSE i \in 1..Len(AsciiOrder) : AsciiOrder[i] = c

\* a < b for strings: byte-wise lexicographic, as String's Ord
RECURSIVE StrLess(_, _)
StrLess(a, b) ==
    IF b = <<>> THEN FALSE
    ELSE IF a = <<>> THEN TRUE
    ELSE IF Head(a) = Head(b) THEN StrLess(Tail(a), Tail(b))
    ELSE Ord(Head(a)) < Ord(Head(b))

\* BTreeMap::insert on an object under construction: a new key goes to its
\* place in key order, a key already in the map has its value replaced
RECURSIVE MapInsert(_, _, _)
MapInsert(obj, k, v) ==
    IF obj.keys = <<>> THEN JObject(<<k>>, <<v>>)
    ELSE IF Head(obj.keys) = k THEN JObject(obj.keys, <<v>> \o Tail(obj.elems))
    ELSE IF StrLess(k, Head(obj.keys)) THEN JObject(<<k>> \o obj.keys, <<v>> \o obj.elems)
    ELSE LET rest == MapInsert(JObject(Tail(obj.keys), Tail(obj.elems)), k, v)
         IN  JObject(<<Head(obj.keys)>> \o rest.keys, <<Head(obj.elems)>> \o rest.elems)

RECURSIVE AtoI(_)
AtoI(s) == IF s = <<>> THEN 0 ELSE AtoI(SubSeq(s, 1, Len(s) - 1)) * 10 + DigitValue(s[Len(s)])

ParseFail == [ok |-> FALSE, v |-> JNull, end |-> 0]
Parsed(v, end) == [ok |-> TRUE, v |-> v, end |-> end]

\* the characters of a string literal whose opening quote is before offset i:
\* up to the closing quote, a backslash taking the next character literally
RECURSIVE ParseString(_, _, _)
ParseString(s, i, acc) ==
    IF i >= Len(s) THEN ParseFail
    ELSE IF s[i + 1] = "\"" THEN Parsed(JString(acc), i + 1)
    ELSE IF s[i + 1] = "\\"
         THEN IF i + 1 < Len(s) /\ s[i + 2] \in {"\"", "\\"}
              THEN ParseString(s, i + 2, Append(acc, s[i + 2]))
              ELSE ParseFail
    ELSE ParseString(s, i + 1, Append(acc, s[i + 1]))

\* serde_json's parser, for the JSON the model's bodies use: null, true,
\* false, non-negative integers, strings, arrays and objects, with spaces
\* allowed between tokens
RECURSIVE ParseValue(_, _)
RECURSIVE ParseElems(_, _, _)
RECURSIVE ParseMembers(_, _, _)
ParseValue(s, from) ==
    LET i == SkipWhile(s, from, WhiteSpace)
        word(w, v) == IF Slice(s, i, i + Len(w)) = w THEN Parsed(v, i + Len(w)) ELSE ParseFail
    IN  IF i >= Len(s) THEN ParseFail
        ELSE CASE s[i + 1] = "n" -> IF i + 4 <= Len(s) THEN word(<<"n", "u", "l", "l">>, JNull) ELSE ParseFail
               [] s[i + 1] = "t" -> IF i + 4 <= Len(s) THEN word(<<"t", "r", "u", "e">>, JBool(TRUE)) ELSE ParseFail
               [] s[i + 1] = "f" -> IF i + 5 <= Len(s) THEN word(<<"f", "a", "l", "s", "e">>, JBool(FALSE)) ELSE ParseFail
               [] s[i + 1] \in Digits ->
                    LET j == SkipWhile(s, i, Digits)
                    IN  IF s[i + 1] = "0" /\ j > i + 1 THEN ParseFail
                        ELSE Parsed(JNumber(AtoI(Slice(s, i, j))), j)
               [] s[i + 1] = "\"" -> ParseString(s, i + 1, <<>>)
               [] s[i + 1] = "[" ->
                    LET j == SkipWhile(s, i + 1, WhiteSpace)
                    IN  IF j < Len(s) /\ s[j + 1] = "]" THEN Parsed(JArray(<<>>), j + 1)
                        ELSE ParseElems(s, i + 1, <<>>)
               [] s[i + 1] = "{" ->
                    LET j == SkipWhile(s, i + 1, WhiteSpace)
                    IN  IF j < Len(s) /\ s[j + 1] = "}" THEN Parsed(JObject(<<>>, <<>>), j + 1)
                        ELSE ParseMembers(s, i + 1, JObject(<<>>, <<>>))
               [] OTHER -> ParseFail
ParseElems(s, from, acc) ==
    LET r == ParseValue(s, from)
        j == SkipWhile(s, r.end, WhiteSpace)
    IN  IF ~r.ok \/ j >= Len(s) THEN ParseFail
        ELSE IF s[j + 1] = "]" THEN Parsed(JArray(Append(acc, r.v)), j + 1)
        ELSE IF s[j + 1] = "," THEN ParseElems(s, j + 1, Append(acc, r.v))
        ELSE ParseFail
ParseMembers(s, from, acc) ==
    LET i == SkipWhile(s, from, WhiteSpace)
        k == IF i < Len(s) /\ s[i + 1] = "\"" THEN ParseString(s, i + 1, <<>>) ELSE ParseFail
        c == SkipWhile(s, k.end, WhiteSpace)
        r == IF k.ok /\ c < Len(s) /\ s[c + 1] = ":" THEN ParseValue(s, c + 1) ELSE ParseFail
        j == SkipWhile(s, r.end, WhiteSpace)
    IN  IF ~r.ok \/ j >= Len(s) THEN ParseFail
        ELSE IF s[j + 1] = "}" THEN Parsed(MapInsert(acc, k.v.s, r.v), j + 1)
        ELSE IF s[j + 1] = "," THEN ParseMembers(s, j + 1, MapInsert(acc, k.v.s, r.v))
        ELSE ParseFail

\* serde_json::from_str: one value, then nothing but whitespace
FromStr(s) ==
    LET r == ParseValue(s, 0)
    IN  IF r.ok /\ SkipWhile(s, r.end, WhiteSpace) = Len(s) THEN r ELSE ParseFail

(***************************************************************************)
(* serde_json_path::JsonPath: parse and query                              *)
(***************************************************************************)
NameSeg(name) == [kind |-> "Name", name |-> name, index |-> 0]
WildSeg == [kind |-> "Wild", name |-> <<>>, index |-> 0]
IndexSeg(i) == [kind |-> "Index", name |-> <<>>, index |-> i]

PathFail == [ok |-> FALSE, segs |-> <<>>]

\* the segments after the root: .name  .*  [*]  [index]
RECURSIVE ParseSegments(_, _, _)
ParseSegments(p, i, acc) ==
    IF i >= Len(p) THEN [ok |-> TRUE, segs |-> acc]
    ELSE IF p[i + 1] = "."
         THEN LET j == SkipWhile(p, i + 1, Letters \cup Digits \cup {"_"})
              IN  IF i + 1 < Len(p) /\ p[i + 2] = "*"
                  THEN ParseSegments(p, i + 2, Append(acc, WildSeg))
                  ELSE IF j > i + 1 /\ p[i + 2] \notin Digits
                  THEN ParseSegments(p, j, Append(acc, NameSeg(Slice(p, i + 1, j))))
                  ELSE PathFail
    ELSE IF p[i + 1] = "["
         THEN LET j == SkipWhile(p, i + 1, Digits)
              IN  IF i + 2 < Len(p) /\ p[i + 2] = "*" /\ p[i + 3] = "]"
                  THEN ParseSegments(p, i + 3, Append(acc, WildSeg))
                  ELSE IF j > i + 1 /\ j < Len(p) /\ p[j + 1] = "]"
                          /\ ~(p[i + 2] = "0" /\ j > i + 2)
                  THEN ParseSegments(p, j + 1, Append(acc, IndexSeg(AtoI(Slice(p, i + 1, j)))))
                  ELSE PathFail
    ELSE PathFail

\* JsonPath::parse
ParsePath(p) == IF p # <<>> /\ p[1] = "$" THEN ParseSegments(p, 1, <<>>) ELSE PathFail

\* the children of one node that a segment selects, in document order
Select(seg, node) ==
    CASE seg.kind = "Name" ->
            LET ks == {k \in 1..Len(node.keys) : node.keys[k] = seg.name}
            IN  IF node.t = "Object" /\ ks # {}
                THEN <<node.elems[CHOOSE k \in ks : TRUE]>> ELSE <<>>
      [] seg.kind = "Wild" -> IF node.t \in {"Object", "Array"} THEN node.elems ELSE <<>>
      [] seg.kind = "Index" ->
            IF node.t = "Array" /\ seg.index < Len(node.elems)
            THEN <<node.elems[seg.index + 1]>> ELSE <<>>

RECURSIVE SelectAll(_, _)
SelectAll(seg, nodes) ==
    IF nodes = <<>> THEN <<>> ELSE Select(seg, Head(nodes)) \o SelectAll(seg, Tail(nodes))

\* JsonPath::query: the node list of the path on a document
RECURSIVE Query(_, _)
Query(segs, nodes) ==
    IF segs = <<>> THEN nodes ELSE Query(Tail(segs), SelectAll(Head(segs), nodes))

(***************************************************************************)
(* The state: one call of TemplateString::render_borrow                    *)
(***************************************************************************)
VARIABLES
    template,       \* self.0, the template string
    context,        \* the TemplateContext: environment, overrides, chains,
                    \* history, and the id of the selected environment
    pc,             \* "render" inside the loop over the captures, then "done"
    new,            \* the local String under construction
    last_match,     \* the local last_match
    result,         \* what render_borrow returned, NotReturned before
    resolved,       \* log: one entry per capture the loop body has handled
    parse_input,    \* the argument s of a direct call of TemplateKey::parse
    parsed,         \* what that call returned, NotParsed before
    collection,     \* build: the recipes' chain keys and the chains
    http_engine,    \* build: TRUE when the context holds an HttpEngine
    database,       \* build: the history records, oldest first
    frames,         \* build: the builds in progress, the top-level one first
    sent,           \* build: the recipes whose request was sent, in order
    started,        \* build: log of every build started: recipe and budget
    build_result,   \* build: what the top-level build returned
    command,        \* request command: self, the parsed arguments
    command_result, \* request command: what execute returned
    stdout,         \* request command: what execute printed, in order
    subcommand,     \* main: the arguments of Subcommand::Request
    main_pc,        \* main: where execute_subcommand stands
    repository,     \* main: the records of the Repository, oldest first
    record_id,      \* main: the local record_id, 0 before it is assigned
    calls,          \* main: log of the calls made to the repository and of
                    \* what happened to the request on the wire
    printed,        \* main: what execute_subcommand printed, in order
    main_result,    \* main: what execute_subcommand returned
    borrowed,       \* into_owned: self, a TemplateError<&str>
    owned           \* into_owned: the TemplateError<String> returned

renderVars == <<template, context, pc, new, last_match, result, resolved>>
keyVars == <<parse_input, parsed>>
commandVars == <<command, command_result, stdout>>
buildVars == <<collection, http_engine, database, frames, sent, started, build_result, commandVars>>
mainVars == <<subcommand, main_pc, repository, record_id, calls, printed, main_result>>
ownedVars == <<borrowed, owned>>
vars == <<renderVars, keyVars, buildVars, mainVars, ownedVars>>

(***************************************************************************)
(* RequestHistory                                                          *)
(***************************************************************************)
\* one stored request with its outcome.  profile is the id of the
\* environment that was selected when the request was sent (--env of
\* main.rs, --profile of cli/request.rs); the store is shared by the runs
\* of every environment, and context.profile is the id selected for the
\* render at hand.  Neither id is an argument of get_last_success.
Record(recipe, profile, ok, content) ==
    [recipe |-> recipe, profile |-> profile, ok |-> ok, content |-> content]

Max(S) == CHOOSE x \in S : \A y \in S : y <= x

\* RequestHistory::get_last_success(recipe_id): Err when the store cannot be
\* read, else the most recent record of the recipe that holds a response
get_last_success(history, recipe_id) ==
    LET hits == {i \in 1..Len(history.records) :
                    history.records[i].recipe = recipe_id /\ history.records[i].ok}
    IN  IF ~history.readable THEN [ok |-> FALSE, found |-> None]
        ELSE IF hits = {} THEN [ok |-> TRUE, found |-> None]
        ELSE [ok |-> TRUE, found |-> Some(history.records[Max(hits)])]

(***************************************************************************)
(* TemplateContext::get and get_chain                                      *)
(***************************************************************************)
\* a resolution: the Result the call returns, and whether the call read
\* the history store on the way
Resolution(res, read) == [res |-> res, read |-> read]

get_opt(map, key) ==
    IF map.some /\ key \in DOMAIN map.v THEN Some(map.v[key]) ELSE None

OrElse(opt, alt) == IF opt.some THEN opt ELSE alt

\* the Field arm with the cascade in the other order: environment first
get_field_env_first(ctx, field) ==
    LET hit == OrElse(OrElse(None, get_opt(ctx.environment, field)),
                      get_opt(ctx.overrides, field))
    IN  IF hit.some THEN Ok(hit.v) ELSE Err(FieldUnknown(field))

\* the Field arm with unwrap_or_default in place of ok_or: an unknown field
\* renders as the empty string
get_field_or_default(ctx, field) ==
    LET hit == OrElse(OrElse(None, get_opt(ctx.overrides, field)),
                      get_opt(ctx.environment, field))
    IN  IF hit.some THEN Ok(hit.v) ELSE Ok(<<>>)

\* the Field arm of TemplateContext::get
get_field(ctx, field) ==
    LET hit == OrElse(OrElse(None, get_opt(ctx.overrides, field)),
                      get_opt(ctx.environment, field))
    IN  IF hit.some THEN Ok(hit.v) ELSE Err(FieldUnknown(field))

\* the lookup falling back on the first chain of the list when no chain has
\* the id
FindChainOrFirst(chains, chain_id) ==
    LET hits == {i \in 1..Len(chains) : chains[i].id = chain_id}
    IN  IF chains = <<>> THEN None
        ELSE IF hits = {} THEN Some(chains[1])
        ELSE Some(chains[CHOOSE i \in hits : \A j \in hits : i <= j])

\* chains.iter().find(|chain| chain.id == chain_id)
FindChain(chains, chain_id) ==
    LET hits == {i \in 1..Len(chains) : chains[i].id = chain_id}
    IN  IF hits = {} THEN None
        ELSE Some(chains[CHOOSE i \in hits : \A j \in hits : i <= j])

\* the value of the matched node without the arm for Value::String: always
\* the node's JSON text
FoundValueToString(found_value) == ToJson(found_value)

\* the value taken from the matched node
FoundValue(found_value) ==
    IF found_value.t = "String" THEN found_value.s ELSE ToJson(found_value)

\* the extraction with next() in place of exactly_one(): the first node of
\* the node list, an error only when the list is empty
ExtractFirst(chain, chain_id, response) ==
    IF chain.path.some
    THEN LET path == ParsePath(chain.path.v)
             response_value == FromStr(response)
             nodes == Query(path.segs, <<response_value.v>>)
         IN  IF ~path.ok THEN Err(ChainJsonPath(chain_id, chain.path.v))
             ELSE IF ~response_value.ok THEN Err(ChainJsonResponse(chain_id))
             ELSE IF Len(nodes) = 0 THEN Err(ChainInvalidResult(chain_id))
             ELSE Ok(FoundValue(nodes[1]))
    ELSE Ok(response)

\* the extraction of get_chain: the response content, or the one node the
\* chain's path selects in it
Extract(chain, chain_id, response) ==
    IF chain.path.some
    THEN LET path == ParsePath(chain.path.v)
             response_value == FromStr(response)
             nodes == Query(path.segs, <<response_value.v>>)
         IN  IF ~path.ok THEN Err(ChainJsonPath(chain_id, chain.path.v))
             ELSE IF ~response_value.ok THEN Err(ChainJsonResponse(chain_id))
             ELSE IF Len(nodes) # 1 THEN Err(ChainInvalidResult(chain_id))
             ELSE Ok(FoundValue(nodes[1]))
    ELSE Ok(response)

\* TemplateContext::get_chain
get_chain(ctx, chain_id) ==
    LET chain == FindChain(ctx.chains, chain_id)
        last == get_last_success(ctx.history, chain.v.source)
    IN  IF ~chain.some THEN Resolution(Err(ChainUnknown(chain_id)), FALSE)
        ELSE IF ~last.ok THEN Resolution(Err(HistoryError), TRUE)
        ELSE IF ~last.found.some THEN Resolution(Err(ChainNoResponse(chain_id)), TRUE)
        ELSE Resolution(Extract(chain.v, chain_id, last.found.v.content), TRUE)

\* TemplateContext::get
get(ctx, key) ==
    IF key.kind = "Field" THEN Resolution(get_field(ctx, key.name), FALSE)
    ELSE get_chain(ctx, key.name)

(***************************************************************************)
(* TemplateString::render_borrow                                           *)
(***************************************************************************)
Entry(raw, key, res, read) == [raw |-> raw, key |-> key, res |-> res, read |-> read]

\* the loop body with the errors swallowed instead of returned by '?': a
\* capture that fails is dropped from the output and the loop goes on
RenderCaptureKeepGoing ==
    /\ pc = "render"
    /\ FindMatch(template, last_match).found
    /\ LET m == FindMatch(template, last_match)
           pushed == new \o Slice(template, last_match, m.start)
           key == ParseKey(Slice(template, m.kstart, m.kend))
           rendered_value == get(context, key.key)
           res == IF key.ok THEN rendered_value.res ELSE Err(key.err)
       IN  /\ new' = pushed \o res.val
           /\ last_match' = m.end
           /\ resolved' = Append(resolved,
                   Entry(Slice(template, m.kstart, m.kend), key.key, res,
                         key.ok /\ rendered_value.read))
    /\ UNCHANGED <<template, context, pc, result, keyVars, buildVars, mainVars, ownedVars>>

\* the loop body that puts the value in the place of the capture, in the
\* template itself, and goes on scanning from there
RenderCaptureInPlace ==
    /\ pc = "render"
    /\ FindMatch(template, last_match).found
    /\ LET m == FindMatch(template, last_match)
           key_raw == Slice(template, m.kstart, m.kend)
           key == ParseKey(key_raw)
           rendered_value == get(context, key.key)
       IN  IF ~key.ok
           THEN /\ result' = Err(key.err)
                /\ pc' = "done"
                /\ resolved' = Append(resolved, Entry(key_raw, NoKey, Err(key.err), FALSE))
                /\ UNCHANGED <<template, new, last_match>>
           ELSE IF ~rendered_value.res.ok
           THEN /\ result' = Err(rendered_value.res.err)
                /\ pc' = "done"
                /\ resolved' = Append(resolved,
                        Entry(key_raw, key.key, rendered_value.res, rendered_value.read))
                /\ UNCHANGED <<template, new, last_match>>
           ELSE /\ template' = Slice(template, 0, m.start) \o rendered_value.res.val
                                   \o Slice(template, m.end, Len(template))
                /\ resolved' = Append(resolved,
                        Entry(key_raw, key.key, rendered_value.res, rendered_value.read))
                /\ UNCHANGED <<new, last_match, pc, result>>
    /\ UNCHANGED <<context, keyVars, buildVars, mainVars, ownedVars>>

\* one pass of the loop body, for the next capture of the regex
RenderCapture ==
    /\ pc = "render"
    /\ FindMatch(template, last_match).found
    /\ LET m == FindMatch(template, last_match)
           pushed == new \o Slice(template, last_match, m.start)
           key_raw == Slice(template, m.kstart, m.kend)
           key == ParseKey(key_raw)
           rendered_value == get(context, key.key)
       IN  IF ~key.ok
           THEN /\ new' = pushed
                /\ result' = Err(key.err)
                /\ pc' = "done"
                /\ resolved' = Append(resolved, Entry(key_raw, NoKey, Err(key.err), FALSE))
                /\ UNCHANGED last_match
           ELSE IF ~rendered_value.res.ok
           THEN /\ new' = pushed
                /\ result' = Err(rendered_value.res.err)
                /\ pc' = "done"
                /\ resolved' = Append(resolved,
                        Entry(key_raw, key.key, rendered_value.res, rendered_value.read))
                /\ UNCHANGED last_match
           ELSE /\ new' = pushed \o rendered_value.res.val
                /\ last_match' = m.end
                /\ resolved' = Append(resolved,
                        Entry(key_raw, key.key, rendered_value.res, rendered_value.read))
                /\ UNCHANGED <<pc, result>>
    /\ UNCHANGED <<template, context, keyVars, buildVars, mainVars, ownedVars>>

\* the return without the push of the text after the last capture
RenderReturnNoTail ==
    /\ pc = "render"
    /\ ~FindMatch(template, last_match).found
    /\ new' = new
    /\ result' = Ok(new')
    /\ pc' = "done"
    /\ UNCHANGED <<template, context, last_match, resolved, keyVars, buildVars, mainVars, ownedVars>>

\* after the last capture: the rest of the template, and Ok(new)
RenderReturn ==
    /\ pc = "render"
    /\ ~FindMatch(template, last_match).found
    /\ new' = new \o Slice(template, last_match, Len(template))
    /\ result' = Ok(new')
    /\ pc' = "done"
    /\ UNCHANGED <<template, context, last_match, resolved, keyVars, buildVars, mainVars, ownedVars>>

(***************************************************************************)
(* A direct call of TemplateKey::parse, as the unit tests make it          *)
(***************************************************************************)
NotParsed == [ok |-> FALSE, key |-> NoKey, err |-> NoError]

CallParse ==
    /\ parsed = NotParsed
    /\ parsed' = ParseKey(parse_input)
    /\ UNCHANGED <<parse_input, renderVars, buildVars, mainVars, ownedVars>>

(***************************************************************************)
(* Inputs                                                                  *)
(***************************************************************************)
\* the pieces a template is put together from; the scan works on the
\* characters of the concatenation, so pieces also combine into placeholders
\* ("{{" then " a" then "}}") and break them ("{" before "{{a}}")
Pieces == {
    <<"{">>,
    <<"{", "{">>,
    <<" ", "a">>,
    <<"}", "}">>,
    <<"{", "{", "a", "}", "}">>,
    <<"{", "{", " ", "b", "_", "1", " ", "}", "}">>,
    <<"{", "{", "a", ".", "b", "}", "}">>,
    <<"{", "{", "a", " ", "b", "}", "}">>,
    <<"{", "{", "c", "h", "a", "i", "n", "s", ".", "c", "}", "}">>
}

Templates == {Concat(ps) : ps \in UNION {[1..n -> Pieces] : n \in 0..MaxPieces}}

\* field maps: overrides and environment, each absent or a map
FieldA == <<"a">>
FieldB == <<"b", "_", "1">>
OverrideMaps == {
    None,
    Some(FieldA :> <<"2">>),
    Some(FieldA :> <<"2">> @@ FieldB :> <<"{", "{", "a", "}", "}">>)
}
EnvironmentMaps == {
    None,
    Some(FieldA :> <<"1">>),
    Some(FieldA :> <<"1">> @@ FieldB :> <<"3">>)
}

Recipes == {"recipe1", "recipe2"}
Profiles == {"profile1", "profile2"}

ChainC == <<"c">>
NewChain(id, source, path) == [id |-> id, source |-> source, path |-> path]
NewContext(environment, overrides, chains, history, profile) ==
    [environment |-> environment, overrides |-> overrides, chains |-> chains,
     history |-> history, profile |-> profile]
NewHistory(readable, records) == [readable |-> readable, records |-> records]

\* raw key texts: every concatenation of at most MaxKeyPieces of these
KeyPieces == {<<".">>, <<"a">>, <<"c", "h", "a", "i", "n", "s">>, <<"c", "h", "a", "i", "n">>}
RawKeys == {Concat(ps) : ps \in UNION {[1..n -> KeyPieces] : n \in 0..MaxKeyPieces}}

\* no build is running
NoBuild ==
    /\ collection = [recipes |-> <<>>, chains |-> <<>>]
    /\ http_engine = FALSE
    /\ database = <<>>
    /\ frames = <<>>
    /\ sent = <<>>
    /\ started = <<>>
    /\ build_result = [status |-> "ok", err |-> NoError]
    /\ command = [recipe_id |-> "recipe1", profile |-> None, dry_run |-> TRUE,
                  exit_status |-> FALSE, no_body |-> FALSE]
    /\ command_result = [status |-> "ok", context |-> "", err |-> NoError, code |-> 0]
    /\ stdout = <<>>

(***************************************************************************)
(* Borrowed and owned errors                                               *)
(*                                                                         *)
(* The strings of a TemplateError<&str> are references into the template   *)
(* or into a chain: a buffer with the byte range the reference covers.     *)
(* The strings of a TemplateError<String> are texts of their own.  The     *)
(* errors of other libraries that some variants wrap are opaque values.    *)
(***************************************************************************)
StrRef(buf, from, to) == [buf |-> buf, from |-> from, to |-> to]
NoRef == StrRef(<<>>, 0, 0)
\* str::to_owned: the bytes the reference covers, copied
to_owned(ref) == Slice(ref.buf, ref.from, ref.to)

NoSource == "none"
BorrowedError(variant, s, path, error) ==
    [variant |-> variant, s |-> s, path |-> path, error |-> error]
OwnedError(variant, s, path, error) ==
    [variant |-> variant, s |-> s, path |-> path, error |-> error]
NotConverted == OwnedError("None", <<>>, <<>>, NoSource)

\* the conversion with the chain id of ChainJsonPath copied into its path
into_owned_path_from_id(self) ==
    CASE self.variant = "InvalidKey" ->
            OwnedError("InvalidKey", to_owned(self.s), <<>>, NoSource)
      [] self.variant = "FieldUnknown" ->
            OwnedError("FieldUnknown", to_owned(self.s), <<>>, NoSource)
      [] self.variant = "ChainUnknown" ->
            OwnedError("ChainUnknown", to_owned(self.s), <<>>, NoSource)
      [] self.variant = "ChainNoResponse" ->
            OwnedError("ChainNoResponse", to_owned(self.s), <<>>, NoSource)
      [] self.variant = "ChainJsonPath" ->
            OwnedError("ChainJsonPath", to_owned(self.s), to_owned(self.s), self.error)
      [] self.variant = "ChainJsonResponse" ->
            OwnedError("ChainJsonResponse", to_owned(self.s), <<>>, self.error)
      [] self.variant = "ChainInvalidResult" ->
            OwnedError("ChainInvalidResult", to_owned(self.s), <<>>, self.error)
      [] self.variant = "History" ->
            OwnedError("History", <<>>, <<>>, self.error)

\* TemplateError::into_owned: one arm for each variant, every string
\* copied, every wrapped error moved
into_owned(self) ==
    CASE self.variant = "InvalidKey" ->
            OwnedError("InvalidKey", to_owned(self.s), <<>>, NoSource)
      [] self.variant = "FieldUnknown" ->
            OwnedError("FieldUnknown", to_owned(self.s), <<>>, NoSource)
      [] self.variant = "ChainUnknown" ->
            OwnedError("ChainUnknown", to_owned(self.s), <<>>, NoSource)
      [] self.variant = "ChainNoResponse" ->
            OwnedError("ChainNoResponse", to_owned(self.s), <<>>, NoSource)
      [] self.variant = "ChainJsonPath" ->
            OwnedError("ChainJsonPath", to_owned(self.s), to_owned(self.path), self.error)
      [] self.variant = "ChainJsonResponse" ->
            OwnedError("ChainJsonResponse", to_owned(self.s), <<>>, self.error)
      [] self.variant = "ChainInvalidResult" ->
            OwnedError("ChainInvalidResult", to_owned(self.s), <<>>, self.error)
      [] self.variant = "History" ->
            OwnedError("History", <<>>, <<>>, self.error)

\* no conversion is made
NoOwned ==
    /\ borrowed = BorrowedError("History", NoRef, NoRef, NoSource)
    /\ owned = OwnedError("History", <<>>, <<>>, NoSource)

\* execute_subcommand is not running
NoMain ==
    /\ subcommand = [request_id |-> "recipe1", environment |-> None, dry_run |-> TRUE]
    /\ main_pc = "done"
    /\ repository = <<>>
    /\ record_id = 0
    /\ calls = <<>>
    /\ printed = <<>>
    /\ main_result = "ok"

\* the state as render_borrow starts
InitRender ==
    /\ pc = "render"
    /\ new = <<>>
    /\ last_match = 0
    /\ result = NotReturned
    /\ resolved = <<>>

\* no direct call of TemplateKey::parse is made
NoParseCall ==
    /\ parse_input = <<>>
    /\ parsed = NotParsed

\* templates of every shape, rendered against field maps
Init ==
    /\ template \in Templates
    /\ \E environment \in EnvironmentMaps, overrides \in OverrideMaps,
          chains \in {<<>>, <<NewChain(ChainC, "recipe1", None)>>} :
          context = NewContext(environment, overrides, chains,
                        NewHistory(TRUE, <<Record("recipe1", "profile1", TRUE, <<"h", "i">>)>>),
                        "profile1")
    /\ InitRender
    /\ NoParseCall
    /\ NoBuild
    /\ NoMain
    /\ NoOwned

Next == RenderCapture \/ RenderReturn

Spec == Init /\ [][Next]_vars

(***************************************************************************)
(* Inputs of the chain renders                                             *)
(***************************************************************************)
ChainD == <<"d">>
ChainE == <<"e">>

\* {"a":[1,2],"b":false,"n":6,"o":{"a":1},"s":"hi!","u":null}
BodyObject ==
    <<"{", "\"", "a", "\"", ":", "[", "1", ",", "2", "]", ",",
      "\"", "b", "\"", ":", "f", "a", "l", "s", "e", ",",
      "\"", "n", "\"", ":", "6", ",",
      "\"", "o", "\"", ":", "{", "\"", "a", "\"", ":", "1", "}", ",",
      "\"", "s", "\"", ":", "\"", "h", "i", "!", "\"", ",",
      "\"", "u", "\"", ":", "n", "u", "l", "l", "}">>
\* [1, 2]
BodyArray == <<"[", "1", ",", " ", "2", "]">>
\* not json!
BodyText == <<"n", "o", "t", " ", "j", "s", "o", "n", "!">>
\* "{{a}}", a JSON string whose text is a placeholder
BodyString == <<"\"", "{", "{", "a", "}", "}", "\"">>

Path(segs) == <<"$">> \o segs
Paths == {
    None,
    Some(Path(<<".", "s">>)),
    Some(Path(<<".", "n">>)),
    Some(Path(<<".", "b">>)),
    Some(Path(<<".", "a">>)),
    Some(Path(<<".", "o">>)),
    Some(Path(<<".", "u">>)),
    Some(Path(<<".", "a", "[", "1", "]">>)),
    Some(Path(<<>>)),
    Some(Path(<<".", "*">>)),
    Some(Path(<<".", "x">>)),
    Some(Path(<<".">>))
}

\* the chain lists: none, one chain c with any path, a chain of another id,
\* two chains of the same id, and the three chains of one template
ChainLists ==
    {<<>>, <<NewChain(ChainD, "recipe1", None)>>,
     <<NewChain(ChainC, "recipe2", None), NewChain(ChainC, "recipe1", None)>>,
     <<NewChain(ChainC, "recipe1", None),
       NewChain(ChainD, "recipe1", Some(Path(<<".", "s">>))),
       NewChain(ChainE, "recipe1", Some(Path(<<".", "o">>)))>>}
    \cup {<<NewChain(ChainC, "recipe1", path)>> : path \in Paths}

ChainTemplates == {
    <<"{", "{", "c", "h", "a", "i", "n", "s", ".", "c", "}", "}">>,
    <<"{", "{", "c", "h", "a", "i", "n", "s", ".", "}", "}">>,
    <<"{", "{", "c", "h", "a", "i", "n", "s", ".", "c", "}", "}", " ",
      "{", "{", "c", "h", "a", "i", "n", "s", ".", "d", "}", "}", " ",
      "{", "{", "c", "h", "a", "i", "n", "s", ".", "e", "}", "}">>
}

\* the records a history is made of
Records == {
    Record("recipe1", "profile1", FALSE, <<>>),
    Record("recipe1", "profile1", TRUE, BodyObject),
    Record("recipe1", "profile2", TRUE, BodyObject),
    Record("recipe1", "profile1", TRUE, BodyArray),
    Record("recipe1", "profile1", TRUE, BodyText),
    Record("recipe1", "profile1", TRUE, BodyString),
    Record("recipe2", "profile1", TRUE, BodyArray)
}

Histories ==
    {NewHistory(TRUE, rs) : rs \in UNION {[1..n -> Records] : n \in 0..MaxRecords}}
    \cup {NewHistory(FALSE, <<r>>) : r \in Records}

\* chain templates rendered against every chain list and history
InitChain ==
    /\ template \in ChainTemplates
    /\ \E chains \in ChainLists, history \in Histories, profile \in Profiles :
          context = NewContext(None, None, chains, history, profile)
    /\ InitRender
    /\ NoParseCall
    /\ NoBuild
    /\ NoMain
    /\ NoOwned

SpecChain == InitChain /\ [][Next]_vars

\* no render is running
NoRender ==
    /\ template = <<>>
    /\ context = NewContext(None, None, <<>>, NewHistory(TRUE, <<>>), "profile1")
    /\ pc = "done"
    /\ new = <<>>
    /\ last_match = 0
    /\ result = Ok(<<>>)
    /\ resolved = <<>>

\* TemplateKey::parse on every raw key text
InitKey ==
    /\ parse_input \in RawKeys
    /\ parsed = NotParsed
    /\ NoRender
    /\ NoBuild
    /\ NoMain
    /\ NoOwned

NextKey == CallParse

SpecKey == InitKey /\ [][NextKey]_vars

(***************************************************************************)
(* BuildRequestCommand::build_request and the builds its chains trigger    *)
(*                                                                         *)
(* A recipe is the list of the chain keys its templates hold, in the order *)
(* the render meets them; a chain has a source recipe and a trigger        *)
(* policy.  A frame is one build in progress: its recipe, its recursion    *)
(* budget and the index of the next chain key to resolve.                  *)
(***************************************************************************)
Frame(recipe, budget) == [recipe |-> recipe, budget |-> budget, next |-> 1]

ChainIds == {ChainC, ChainD}
Triggers == {"never", "always", "stale"}

\* the chain keys one recipe may hold
RecipeKeys == {<<>>, <<ChainC>>, <<ChainD>>, <<ChainC, ChainD>>}

Top == frames[Len(frames)]
\* the id of the chain the top build resolves next, and the chain
NextChainId == collection.recipes[Top.recipe][Top.next]
NextChain == collection.chains[NextChainId]
\* the id of the chain whose trigger started the top build
TriggeringChainId == collection.recipes[frames[Len(frames) - 1].recipe][frames[Len(frames) - 1].next]
Resolving == frames # <<>> /\ Top.next <= Len(collection.recipes[Top.recipe])

HasSuccess(recipe) == \E i \in 1..Len(database) : database[i].recipe = recipe /\ database[i].ok

\* the trigger policy applied: always, never, or when the last response is
\* missing or stale
MustTrigger(chain, stale) ==
    \/ chain.trigger = "always"
    \/ chain.trigger = "stale" /\ (stale \/ ~HasSuccess(chain.source))

\* the error unwinds every build in progress: the top-level build returns it
Fail(error) ==
    /\ build_result' = [status |-> "err", err |-> error]
    /\ frames' = <<>>

Advance(fs) == [fs EXCEPT ![Len(fs)].next = @ + 1]

\* a chain that does not trigger: the last successful response of its
\* source recipe, or ChainNoResponse
ResolveFromHistory ==
    /\ Resolving
    /\ \E stale \in BOOLEAN : ~MustTrigger(NextChain, stale)
    /\ IF HasSuccess(NextChain.source)
       THEN frames' = Advance(frames) /\ UNCHANGED build_result
       ELSE Fail(ChainNoResponse(NextChainId))
    /\ UNCHANGED <<collection, http_engine, database, sent, started, commandVars, renderVars, keyVars, mainVars, ownedVars>>

\* a chain that has to trigger, in a context without an HttpEngine
TriggerForbidden ==
    /\ Resolving
    /\ \E stale \in BOOLEAN : MustTrigger(NextChain, stale)
    /\ ~http_engine
    /\ Fail(TriggerDisabled)
    /\ UNCHANGED <<collection, http_engine, database, sent, started, commandVars, renderVars, keyVars, mainVars, ownedVars>>

\* the limit met only below a budget of 0
TriggerOverLimitBelowZero ==
    /\ Resolving
    /\ \E stale \in BOOLEAN : MustTrigger(NextChain, stale)
    /\ http_engine
    /\ Top.budget < 0
    /\ Fail(RecursionLimitExceeded)
    /\ UNCHANGED <<collection, http_engine, database, sent, started, commandVars, renderVars, keyVars, mainVars, ownedVars>>

\* a chain that has to trigger, with the budget used up
TriggerOverLimit ==
    /\ Resolving
    /\ \E stale \in BOOLEAN : MustTrigger(NextChain, stale)
    /\ http_engine
    /\ Top.budget = 0
    /\ Fail(RecursionLimitExceeded)
    /\ UNCHANGED <<collection, http_engine, database, sent, started, commandVars, renderVars, keyVars, mainVars, ownedVars>>

\* the trigger with the budget handed on as it is
TriggerNestedSameBudget ==
    /\ Resolving
    /\ \E stale \in BOOLEAN : MustTrigger(NextChain, stale)
    /\ http_engine
    /\ Top.budget > 0
    /\ frames' = Append(frames, Frame(NextChain.source, Top.budget))
    /\ started' = Append(started, [recipe |-> NextChain.source, budget |-> Top.budget])
    /\ UNCHANGED <<collection, http_engine, database, sent, build_result, commandVars, renderVars, keyVars, mainVars, ownedVars>>

\* a chain that triggers: the build of its source recipe starts, in a
\* context that is the same but for the budget, one less
TriggerNested ==
    /\ Resolving
    /\ \E stale \in BOOLEAN : MustTrigger(NextChain, stale)
    /\ http_engine
    /\ Top.budget > 0
    /\ frames' = Append(frames, Frame(NextChain.source, Top.budget - 1))
    /\ started' = Append(started, [recipe |-> NextChain.source, budget |-> Top.budget - 1])
    /\ UNCHANGED <<collection, http_engine, database, sent, build_result, commandVars, renderVars, keyVars, mainVars, ownedVars>>

\* the send whose failure leaves no record
NestedSendNoRecord ==
    /\ Len(frames) >= 2
    /\ ~Resolving
    /\ \E ok \in BOOLEAN :
        /\ sent' = Append(sent, Top.recipe)
        /\ IF ok
           THEN /\ database' = Append(database, [recipe |-> Top.recipe, ok |-> ok])
                /\ frames' = Advance(SubSeq(frames, 1, Len(frames) - 1))
                /\ UNCHANGED build_result
           ELSE /\ database' = database
                /\ Fail(ChainNoResponse(TriggeringChainId))
    /\ UNCHANGED <<collection, http_engine, started, commandVars, renderVars, keyVars, mainVars, ownedVars>>

\* a triggered build is complete: its request is sent, the outcome goes
\* into the history, and the chain that triggered it gets the response or
\* fails with ChainNoResponse
NestedSend ==
    /\ Len(frames) >= 2
    /\ ~Resolving
    /\ \E ok \in BOOLEAN :
        /\ sent' = Append(sent, Top.recipe)
        /\ database' = Append(database, [recipe |-> Top.recipe, ok |-> ok])
        /\ IF ok
           THEN /\ frames' = Advance(SubSeq(frames, 1, Len(frames) - 1))
                /\ UNCHANGED build_result
           ELSE Fail(ChainNoResponse(TriggeringChainId))
    /\ UNCHANGED <<collection, http_engine, started, commandVars, renderVars, keyVars, mainVars, ownedVars>>

\* the top-level build is complete: build_request returns the request
BuildReturn ==
    /\ Len(frames) = 1
    /\ ~Resolving
    /\ build_result' = [status |-> "ok", err |-> NoError]
    /\ frames' = <<>>
    /\ UNCHANGED <<collection, http_engine, database, sent, started, commandVars, renderVars, keyVars, mainVars, ownedVars>>

\* an error that is no TemplateError: a file that does not load, an id the
\* collection does not hold, a request that fails, a write that fails
Other(message) == [variant |-> "Other", s |-> <<>>, path |-> message]

\* the engine is created when triggered requests are allowed
NewHttpEngineAlways(trigger_dependencies) == TRUE

NewHttpEngine(trigger_dependencies) == IF trigger_dependencies THEN TRUE ELSE FALSE

\* the ids a command may name: those of the collection and one it lacks
RecipeIds == Recipes \cup {"recipe3"}
ProfileIds == {None, Some("profile1"), Some("profile3")}

\* build_request up to the render: the files load, the engine is created,
\* the profile and the recipe are looked up, and the top-level build starts
\* with a fresh recursion count
BuildRequest ==
    /\ build_result.status = "setup"
    /\ \E loaded \in BOOLEAN, budget \in 0..MaxBudget :
        IF ~loaded
        THEN /\ Fail(Other(<<"l", "o", "a", "d">>))
             /\ UNCHANGED <<http_engine, started>>
        ELSE IF command.profile.some /\ command.profile.v \notin Profiles
        THEN /\ Fail(Other(<<"p", "r", "o", "f", "i", "l", "e">>))
             /\ http_engine' = NewHttpEngine(~command.dry_run)
             /\ UNCHANGED started
        ELSE IF command.recipe_id \notin DOMAIN collection.recipes
        THEN /\ Fail(Other(<<"r", "e", "c", "i", "p", "e">>))
             /\ http_engine' = NewHttpEngine(~command.dry_run)
             /\ UNCHANGED started
        ELSE /\ http_engine' = NewHttpEngine(~command.dry_run)
             /\ frames' = <<Frame(command.recipe_id, budget)>>
             /\ started' = <<[recipe |-> command.recipe_id, budget |-> budget]>>
             /\ build_result' = [status |-> "running", err |-> NoError]
    /\ UNCHANGED <<collection, database, sent, commandVars, renderVars, keyVars, mainVars, ownedVars>>

\* whether the error of a build is, or wraps, TriggerDisabled
has_trigger_disabled_error(error) == error.variant = "TriggerDisabled"

\* the message of the context; the source puts --dry-run between backquotes,
\* which a string of this language cannot hold
DryRunMessage == "Triggered requests are disabled with '--dry-run'"

CommandRunning == [status |-> "running", context |-> "", err |-> NoError, code |-> 0]
CommandOk(code) == [status |-> "ok", context |-> "", err |-> NoError, code |-> code]
CommandErr(message, error) == [status |-> "err", context |-> message, err |-> error, code |-> 1]

\* the closure with the message put on every error
MapBuildErrorAlways(error) == CommandErr(DryRunMessage, error)

\* the closure of map_err: TriggerDisabled gets the message of the dry run
\* as its context, every other error is returned as it is
MapBuildError(error) ==
    IF has_trigger_disabled_error(error)
    THEN CommandErr(DryRunMessage, error)
    ELSE CommandErr("", error)

SUCCESS == 0
HTTP_ERROR_EXIT_CODE == 2

\* execute, the build having failed: the mapped error is returned
ExecuteBuildFailed ==
    /\ command_result.status = "running"
    /\ build_result.status = "err"
    /\ command_result' = MapBuildError(build_result.err)
    /\ UNCHANGED <<collection, http_engine, database, frames, sent, started, build_result,
                   command, stdout, renderVars, keyVars, mainVars, ownedVars>>

\* the responses a request may get; a body is text or raw bytes
Responses == [status : {200, 404}, text : BOOLEAN]

\* execute, with an engine: the request is sent, the body is printed, and
\* the exit code follows the status when exit_status is set
ExecuteSend ==
    /\ command_result.status = "running"
    /\ build_result.status = "ok"
    /\ http_engine
    /\ sent' = Append(sent, command.recipe_id)
    /\ \/ /\ database' = Append(database, [recipe |-> command.recipe_id, ok |-> FALSE])
          /\ command_result' = CommandErr("", Other(<<"s", "e", "n", "d">>))
          /\ UNCHANGED stdout
       \/ \E response \in Responses, written \in BOOLEAN :
            /\ database' = Append(database, [recipe |-> command.recipe_id, ok |-> TRUE])
            /\ IF command.no_body
               THEN /\ UNCHANGED stdout
                    /\ command_result' =
                          CommandOk(IF command.exit_status /\ response.status >= 400
                                    THEN HTTP_ERROR_EXIT_CODE ELSE SUCCESS)
               ELSE IF response.text \/ written
               THEN /\ stdout' = Append(stdout, "body")
                    /\ command_result' =
                          CommandOk(IF command.exit_status /\ response.status >= 400
                                    THEN HTTP_ERROR_EXIT_CODE ELSE SUCCESS)
               ELSE /\ UNCHANGED stdout
                    /\ command_result' = CommandErr("Error writing to stdout",
                                                    Other(<<"w", "r", "i", "t", "e">>))
    /\ UNCHANGED <<collection, http_engine, frames, started, build_result,
                   command, renderVars, keyVars, mainVars, ownedVars>>

\* execute, without an engine: the request is printed and nothing is sent
ExecutePrint ==
    /\ command_result.status = "running"
    /\ build_result.status = "ok"
    /\ ~http_engine
    /\ stdout' = Append(stdout, "request")
    /\ command_result' = CommandOk(SUCCESS)
    /\ UNCHANGED <<collection, http_engine, database, frames, sent, started, build_result,
                   command, renderVars, keyVars, mainVars, ownedVars>>

\* the request command on a recipe of a collection
InitBuild ==
    /\ \E recipes \in [Recipes -> RecipeKeys], trigger \in [ChainIds -> Triggers] :
          collection = [recipes |-> recipes,
                        chains |-> [c \in ChainIds |->
                            [source |-> IF c = ChainC THEN "recipe2" ELSE "recipe1",
                             trigger |-> trigger[c]]]]
    /\ http_engine = FALSE
    /\ database \in {<<>>, <<[recipe |-> "recipe2", ok |-> TRUE]>>}
    /\ frames = <<>>
    /\ started = <<>>
    /\ sent = <<>>
    /\ build_result = [status |-> "setup", err |-> NoError]
    /\ command \in [recipe_id : RecipeIds, profile : ProfileIds, dry_run : BOOLEAN,
                    exit_status : BOOLEAN, no_body : BOOLEAN]
    /\ command_result = CommandRunning
    /\ stdout = <<>>
    /\ NoRender
    /\ NoParseCall
    /\ NoMain
    /\ NoOwned

NextBuild ==
    \/ BuildRequest
    \/ ResolveFromHistory
    \/ TriggerForbidden
    \/ TriggerOverLimit
    \/ TriggerNested
    \/ NestedSend
    \/ BuildReturn
    \/ ExecuteBuildFailed
    \/ ExecuteSend
    \/ ExecutePrint

SpecBuild == InitBuild /\ [][NextBuild]_vars

\* the command runs in one task that is polled until it returns: a step
\* that can be taken is taken
SpecBuildFair == SpecBuild /\ WF_vars(NextBuild)

(***************************************************************************)
(* Properties of render_borrow, get and parse                              *)
(***************************************************************************)
\* the raw key texts of all the captures of a template, left to right
RECURSIVE AllCaptures(_, _)
AllCaptures(s, from) ==
    LET m == FindMatch(s, from)
    IN  IF ~m.found THEN <<>>
        ELSE <<Slice(s, m.kstart, m.kend)>> \o AllCaptures(s, m.end)

\* what parsing and resolving one raw key text gives in a context
Outcome(ctx, raw) ==
    IF ParseKey(raw).ok THEN get(ctx, ParseKey(raw).key).res ELSE Err(ParseKey(raw).err)

\* the index of the first capture that fails, 0 when none does
FirstFailure(ctx, raws) ==
    LET bad == {i \in 1..Len(raws) : ~Outcome(ctx, raws[i]).ok}
    IN  IF bad = {} THEN 0 ELSE CHOOSE i \in bad : \A j \in bad : i <= j

\* C1: the captures are handled strictly left to right; nothing is handled
\* after a capture that failed; and a render of a template with a failing
\* capture returns the error of the first such capture, and no string
C1_FirstErrorAborts ==
    LET raws == AllCaptures(template, 0)
        f == FirstFailure(context, raws)
    IN  /\ Len(resolved) <= Len(raws)
        /\ \A i \in 1..Len(resolved) : resolved[i].raw = raws[i]
        /\ \A i \in 1..(Len(resolved) - 1) : resolved[i].res.ok
        /\ (pc = "done" /\ f # 0) =>
                /\ result = Err(Outcome(context, raws[f]).err)
                /\ result.val = <<>>
                /\ Len(resolved) = f
        /\ (pc = "done" /\ ~result.ok) => f # 0

\* a render that resolved one capture, failed on the second and left a
\* third one untouched
C1_Witness ==
    /\ pc = "done"
    /\ ~result.ok
    /\ Len(resolved) = 2
    /\ Len(AllCaptures(template, 0)) = 3

InMap(map, name) == map.some /\ name \in DOMAIN map.v

\* C2: a field in both maps resolves to the override's value; the value of
\* the environment is what a field resolves to when the overrides are absent
\* or have no entry for it
C2_OverrideShadows ==
    \A i \in 1..Len(resolved) :
        LET e == resolved[i]
        IN  e.key.kind = "Field" =>
                /\ (InMap(context.overrides, e.key.name) /\ InMap(context.environment, e.key.name))
                        => e.res = Ok(context.overrides.v[e.key.name])
                /\ (~InMap(context.overrides, e.key.name) /\ InMap(context.environment, e.key.name))
                        => e.res = Ok(context.environment.v[e.key.name])
                /\ (e.res.ok /\ InMap(context.environment, e.key.name)
                        /\ e.res.val = context.environment.v[e.key.name])
                        => \/ ~InMap(context.overrides, e.key.name)
                           \/ context.overrides.v[e.key.name] = context.environment.v[e.key.name]

\* a field that both maps define, with different values, has been resolved
C2_Witness ==
    \E i \in 1..Len(resolved) :
        /\ resolved[i].key.kind = "Field"
        /\ InMap(context.overrides, resolved[i].key.name)
        /\ InMap(context.environment, resolved[i].key.name)
        /\ context.overrides.v[resolved[i].key.name] # context.environment.v[resolved[i].key.name]
        /\ resolved[i].res.ok

\* t is one whole placeholder: "{{", spaces, one or more key characters,
\* spaces, "}}"
IsPlaceholder(t) ==
    /\ Len(t) >= 5
    /\ t[1] = "{" /\ t[2] = "{" /\ t[Len(t) - 1] = "}" /\ t[Len(t)] = "}"
    /\ \E p \in 3..(Len(t) - 2), q \in 3..(Len(t) - 2) :
            /\ p <= q
            /\ \A k \in 3..(p - 1) : t[k] \in WhiteSpace
            /\ \A k \in p..q : t[k] \in KeyChars
            /\ \A k \in (q + 1)..(Len(t) - 2) : t[k] \in WhiteSpace

HasPlaceholder(s) ==
    \E i \in 1..Len(s), j \in 1..Len(s) : i <= j /\ IsPlaceholder(SubSeq(s, i, j))

\* C3: a template without a placeholder renders to itself
C3_PlainUnchanged ==
    (pc = "done" /\ ~HasPlaceholder(template)) => result = Ok(template)

\* a render of a non-empty template that has braces but no placeholder
C3_Witness ==
    /\ pc = "done"
    /\ ~HasPlaceholder(template)
    /\ Len(template) >= 3
    /\ \E i \in 1..(Len(template) - 1) : template[i] = "{" /\ template[i + 1] = "{"
    /\ result.ok

\* C4: a field that neither map defines, absent maps included, fails with
\* FieldUnknown of that field's name
C4_FieldUnknown ==
    \A i \in 1..Len(resolved) :
        LET e == resolved[i]
        IN  (e.key.kind = "Field"
                /\ ~InMap(context.overrides, e.key.name)
                /\ ~InMap(context.environment, e.key.name))
            => /\ e.res = Err(FieldUnknown(e.key.name))
               /\ e.key.name = e.raw
               /\ pc = "done"
               /\ result = Err(FieldUnknown(e.raw))

\* an unknown field has been resolved with one of the two maps absent
C4_Witness ==
    \E i \in 1..Len(resolved) :
        /\ resolved[i].key.kind = "Field"
        /\ ~InMap(context.overrides, resolved[i].key.name)
        /\ ~InMap(context.environment, resolved[i].key.name)
        /\ ~context.overrides.some
        /\ context.environment.some

\* the offsets of the dots of a string
Dots(s) == {i \in 1..Len(s) : s[i] = "."}

\* C5: a raw text without a dot is the field of that name; a raw text with
\* one dot and "chains" before it is the chain named by what follows the
\* dot, the empty name included; every other raw text is InvalidKey of the
\* whole raw text
C5_KeyGrammar ==
    parsed # NotParsed =>
        LET s == parse_input
            d == CHOOSE i \in Dots(s) : TRUE
        IN  IF Dots(s) = {} THEN parsed = OkKey(Field(s))
            ELSE IF Cardinality(Dots(s)) = 1 /\ SubSeq(s, 1, d - 1) = CHAINS
            THEN parsed = OkKey(Chain(SubSeq(s, d + 1, Len(s))))
            ELSE parsed = ErrKey(InvalidKey(s))

\* "chains." has been parsed: a chain key with the empty id
C5_Witness ==
    /\ parse_input = CHAINS \o <<".">>
    /\ parsed = OkKey(Chain(<<>>))

(***************************************************************************)
(* Properties of get_chain                                                 *)
(***************************************************************************)
\* the indices of the chains of the context with an id
ChainsOf(id) == {i \in 1..Len(context.chains) : context.chains[i].id = id}
\* the chain an id names: the first of the list with it
ChainOf(id) == context.chains[CHOOSE i \in ChainsOf(id) : \A j \in ChainsOf(id) : i <= j]

\* the indices of the records with a response for a recipe, and of those
\* recorded under a profile
Successes(recipe) ==
    {i \in 1..Len(context.history.records) :
        context.history.records[i].recipe = recipe /\ context.history.records[i].ok}
SuccessesUnder(recipe, profile) ==
    {i \in Successes(recipe) : context.history.records[i].profile = profile}
\* the content of the most recent response of a recipe
LastContent(recipe) == context.history.records[Max(Successes(recipe))].content

\* C6: a chain key whose id no chain of the context has fails with
\* ChainUnknown of that id, whatever the history holds and without a read
\* of the history
C6_ChainUnknown ==
    \A i \in 1..Len(resolved) :
        LET e == resolved[i]
        IN  (e.key.kind = "Chain" /\ ChainsOf(e.key.name) = {})
            => /\ e.res = Err(ChainUnknown(e.key.name))
               /\ ~e.read
               /\ pc = "done" /\ result = Err(ChainUnknown(e.key.name))

\* an unknown chain id has been resolved in a context that has chains and a
\* history with a response
C6_Witness ==
    \E i \in 1..Len(resolved) :
        /\ resolved[i].key.kind = "Chain"
        /\ ChainsOf(resolved[i].key.name) = {}
        /\ context.chains # <<>>
        /\ Successes(context.chains[1].source) # {}

\* C7: a known chain whose source recipe has no response recorded
\* under the active profile fails with ChainNoResponse (the history being
\* readable)
C7_NoResponseForProfile ==
    \A i \in 1..Len(resolved) :
        LET e == resolved[i]
        IN  (e.key.kind = "Chain" /\ ChainsOf(e.key.name) # {}
                /\ context.history.readable
                /\ SuccessesUnder(ChainOf(e.key.name).source, context.profile) = {})
            => e.res = Err(ChainNoResponse(e.key.name))

\* what get_chain does in place of C7: a known chain reads the history by
\* the source recipe alone; when the read succeeds and the recipe has no
\* response recorded (no record, or failures only) the chain fails with
\* ChainNoResponse of its id, and else the content it uses is that of the
\* recipe's most recent response, whatever profile it was recorded under
NoResponseForRecipe ==
    \A i \in 1..Len(resolved) :
        LET e == resolved[i]
            id == e.key.name
        IN  (e.key.kind = "Chain" /\ ChainsOf(id) # {})
            => /\ e.read
               /\ (context.history.readable /\ Successes(ChainOf(id).source) = {})
                    => e.res = Err(ChainNoResponse(id))
               /\ (context.history.readable /\ Successes(ChainOf(id).source) # {})
                    => /\ e.res.err.variant # "ChainNoResponse"
                       /\ ~ChainOf(id).path.some => e.res = Ok(LastContent(ChainOf(id).source))

\* a known chain whose source recipe has records, all of them failures, has
\* been resolved
NoResponseForRecipeWitness ==
    \E i \in 1..Len(resolved) :
        /\ resolved[i].key.kind = "Chain"
        /\ ChainsOf(resolved[i].key.name) # {}
        /\ context.history.readable
        /\ \E k \in 1..Len(context.history.records) :
                context.history.records[k].recipe = ChainOf(resolved[i].key.name).source
        /\ Successes(ChainOf(resolved[i].key.name).source) = {}
        /\ resolved[i].res = Err(ChainNoResponse(resolved[i].key.name))

\* the values the paths select in BodyObject, as texts
ExpectedOfBodyObject ==
    Path(<<".", "s">>) :> <<"h", "i", "!">>
    @@ Path(<<".", "n">>) :> <<"6">>
    @@ Path(<<".", "b">>) :> <<"f", "a", "l", "s", "e">>
    @@ Path(<<".", "a">>) :> <<"[", "1", ",", "2", "]">>
    @@ Path(<<".", "o">>) :> <<"{", "\"", "a", "\"", ":", "1", "}">>
    @@ Path(<<".", "u">>) :> <<"n", "u", "l", "l">>
    @@ Path(<<".", "a", "[", "1", "]">>) :> <<"2">>
    @@ Path(<<>>) :> BodyObject

\* the one node a chain's path selects in the most recent response
NodeOf(chain) ==
    Query(ParsePath(chain.path.v).segs, <<FromStr(LastContent(chain.source)).v>>)[1]

\* C8: the value of a resolved chain is the whole content of the response
\* when the chain has no path, the text of the string when the path selects
\* a string, and else the compact JSON text of the selected node: a text
\* without whitespace that parses back to the node
C8_ChainValue ==
    \A i \in 1..Len(resolved) :
        LET e == resolved[i]
            chain == ChainOf(e.key.name)
        IN  (e.key.kind = "Chain" /\ e.res.ok)
            => IF ~chain.path.some THEN e.res.val = LastContent(chain.source)
               ELSE /\ NodeOf(chain).t = "String" => e.res.val = NodeOf(chain).s
                    /\ NodeOf(chain).t # "String"
                        => /\ e.res.val = ToJson(NodeOf(chain))
                           /\ FromStr(e.res.val) = Parsed(NodeOf(chain), Len(e.res.val))
                    /\ (LastContent(chain.source) = BodyObject
                            /\ chain.path.v \in DOMAIN ExpectedOfBodyObject)
                        => e.res.val = ExpectedOfBodyObject[chain.path.v]

\* one render has resolved a chain without a path, a chain whose path
\* selects a string and a chain whose path selects an object
C8_Witness ==
    /\ Len(resolved) = 3
    /\ \A i \in 1..3 : resolved[i].key.kind = "Chain" /\ resolved[i].res.ok
    /\ ~ChainOf(resolved[1].key.name).path.some
    /\ NodeOf(ChainOf(resolved[2].key.name)).t = "String"
    /\ NodeOf(ChainOf(resolved[3].key.name)).t = "Object"

\* the number of nodes a chain's path selects in the most recent response
NodeCount(chain) ==
    Len(Query(ParsePath(chain.path.v).segs, <<FromStr(LastContent(chain.source)).v>>))

\* C9: a chain with a path resolves only when the path selects exactly one
\* node of the response; when it selects none or several the chain fails
\* with ChainInvalidResult of its id and the render returns no string
C9_ExactlyOne ==
    \A i \in 1..Len(resolved) :
        LET e == resolved[i]
            chain == ChainOf(e.key.name)
        IN  (/\ e.key.kind = "Chain" /\ ChainsOf(e.key.name) # {}
             /\ chain.path.some
             /\ context.history.readable /\ Successes(chain.source) # {}
             /\ ParsePath(chain.path.v).ok
             /\ FromStr(LastContent(chain.source)).ok)
            => /\ e.res.ok <=> NodeCount(chain) = 1
               /\ NodeCount(chain) # 1
                    => /\ e.res = Err(ChainInvalidResult(e.key.name))
                       /\ pc = "done" /\ result = Err(ChainInvalidResult(e.key.name))

\* a chain whose path selects several nodes has been resolved
C9_Witness ==
    \E i \in 1..Len(resolved) :
        /\ resolved[i].key.kind = "Chain" /\ ChainsOf(resolved[i].key.name) # {}
        /\ ChainOf(resolved[i].key.name).path.some
        /\ context.history.readable /\ Successes(ChainOf(resolved[i].key.name).source) # {}
        /\ ParsePath(ChainOf(resolved[i].key.name).path.v).ok
        /\ FromStr(LastContent(ChainOf(resolved[i].key.name).source)).ok
        /\ NodeCount(ChainOf(resolved[i].key.name)) >= 2
        /\ ~resolved[i].res.ok

(***************************************************************************)
(* Properties of the recursion budget                                      *)
(***************************************************************************)
\* C10: the budget of a build never changes once the build has started; a
\* build that a trigger starts has a budget strictly below that of the
\* build that triggered it; and a chain that always triggers, met with an
\* engine and a budget of 0, makes the next step fail with
\* RecursionLimitExceeded, with no build started and no request sent
C10_BudgetDecreases ==
    [][/\ \A i \in 1..Len(frames) : i <= Len(frames') => frames'[i].budget = frames[i].budget
       /\ (frames # <<>> /\ Len(frames') > Len(frames))
            => /\ Len(frames') = Len(frames) + 1
               /\ frames'[Len(frames')].budget < frames[Len(frames)].budget
               /\ frames'[Len(frames')].budget >= 0
       /\ (Resolving /\ NextChain.trigger = "always" /\ http_engine /\ Top.budget = 0)
            => /\ build_result' = [status |-> "err", err |-> RecursionLimitExceeded]
               /\ frames' = <<>>
               /\ started' = started
               /\ sent' = sent
               /\ database' = database
      ]_vars

\* a build has triggered nested builds down to the budget 0, and the trigger
\* met there has failed with RecursionLimitExceeded
C10_Witness ==
    /\ build_result = [status |-> "err", err |-> RecursionLimitExceeded]
    /\ Len(started) >= 3
    /\ \A i \in 1..Len(started) : started[i].budget = started[1].budget + 1 - i
    /\ started[Len(started)].budget = 0
    /\ sent = <<>>

(***************************************************************************)
(* Properties of the triggered builds and of the request command           *)
(***************************************************************************)
\* recipe1 opens with a chain that always triggers recipe2, recipe2 opens
\* with a chain that always triggers recipe1, and triggers are allowed
Cycle ==
    /\ collection.recipes["recipe1"] # <<>> /\ collection.recipes["recipe1"][1] = ChainC
    /\ collection.recipes["recipe2"] # <<>> /\ collection.recipes["recipe2"][1] = ChainD
    /\ collection.chains[ChainC].trigger = "always"
    /\ collection.chains[ChainD].trigger = "always"
    /\ ~command.dry_run

\* C11: the build of a recipe of a cycle of two recipes whose chains always
\* trigger one another never starts more nested builds than its initial
\* budget, and it ends: the top-level build returns RecursionLimitExceeded,
\* no request having been sent
C11_CycleTerminates ==
    /\ []((Cycle /\ started # <<>>) => Len(started) - 1 <= started[1].budget)
    /\ (Cycle /\ started # <<>>)
          ~> (/\ build_result = [status |-> "err", err |-> RecursionLimitExceeded]
              /\ frames = <<>>
              /\ sent = <<>>)

\* the build of a recipe of the cycle has used a budget of one or more up
\* and has returned RecursionLimitExceeded
C11_Witness ==
    /\ Cycle
    /\ started # <<>> /\ started[1].budget >= 1
    /\ Len(started) = started[1].budget + 1
    /\ \A i \in 2..Len(started) : started[i].recipe # started[i - 1].recipe
    /\ build_result = [status |-> "err", err |-> RecursionLimitExceeded]
    /\ command_result.status = "err" /\ command_result.err = RecursionLimitExceeded

\* C12: a chain that always triggers, met without an engine, makes the
\* build fail with TriggerDisabled, which is not ChainNoResponse, with no
\* build started and no request sent; and the error execute returns for a
\* failed build is TriggerDisabled under the message of the dry run when
\* the build failed with TriggerDisabled, and the error of the build with
\* no message added in every other case
C12_TriggerDisabled ==
    [][/\ (Resolving /\ NextChain.trigger = "always" /\ ~http_engine)
            => /\ build_result' = [status |-> "err", err |-> TriggerDisabled]
               /\ build_result'.err # ChainNoResponse(NextChainId)
               /\ started' = started
               /\ sent' = sent
       /\ (build_result.status = "err" /\ command_result' # command_result)
            => /\ command_result'.status = "err"
               /\ command_result'.err = build_result.err
               /\ build_result.err = TriggerDisabled
                    => command_result'.context = DryRunMessage
               /\ build_result.err # TriggerDisabled
                    => command_result'.context = ""
      ]_vars

\* a dry run has met a chain that has to trigger, and execute has returned
\* TriggerDisabled under the message of the dry run
C12_Witness ==
    /\ command.dry_run
    /\ build_result = [status |-> "err", err |-> TriggerDisabled]
    /\ command_result = CommandErr(DryRunMessage, TriggerDisabled)
    /\ sent = <<>>

\* execute has returned another error of the build as it was
C12_WitnessOther ==
    /\ build_result.status = "err"
    /\ build_result.err.variant \in {"ChainNoResponse", "RecursionLimitExceeded", "Other"}
    /\ command_result = CommandErr("", build_result.err)

\* C13: once build_request has created its context, the engine is there
\* exactly when dry_run is not set; in a dry run no request is ever sent,
\* top-level or triggered, and no build is triggered; and a dry run whose
\* build succeeds prints the request, nothing else, and returns the exit
\* code of success
C13_DryRunSendsNothing ==
    /\ started # <<>> => (http_engine <=> ~command.dry_run)
    /\ command.dry_run
         => /\ sent = <<>>
            /\ Len(started) <= 1
            /\ \A i \in 1..Len(stdout) : stdout[i] = "request"
            /\ (build_result.status = "ok" /\ command_result.status # "running")
                 => /\ command_result = CommandOk(SUCCESS)
                    /\ stdout = <<"request">>

\* a dry run of a recipe that holds a chain has built its request from the
\* history, printed it and returned
C13_Witness ==
    /\ command.dry_run
    /\ started # <<>>
    /\ build_result.status = "ok"
    /\ collection.recipes[command.recipe_id] # <<>>
    /\ command_result = CommandOk(SUCCESS)
    /\ stdout = <<"request">>
    /\ sent = <<>>

\* a build fails in this step while a triggered build is in progress
NestedFailure ==
    /\ Len(frames) >= 2
    /\ build_result.status = "running"
    /\ build_result'.status = "err"

C19_WitnessBuild ==
    /\ Len(started) >= 2
    /\ sent = <<>>
    /\ build_result = [status |-> "err", err |-> RecursionLimitExceeded]

(***************************************************************************)
(* execute_subcommand: one request built, registered, sent and recorded    *)
(*                                                                         *)
(* A record of the repository holds the id it got from add_request, the    *)
(* recipe of its request, and its response: "none" until add_response has  *)
(* written one, then "ok" or "err".                                        *)
(***************************************************************************)
NewRecord(id, recipe) == [id |-> id, recipe |-> recipe, response |-> "none"]

\* the ids the collection holds
Environments == {"profile1", "profile2"}
EnvironmentIds == {None, Some("profile1"), Some("profile3")}

\* find_by on the environment and on the recipe, Repository::load and
\* Request::build: any of them may fail, and the error is returned
MainBuild ==
    /\ main_pc = "start"
    /\ \E loaded \in BOOLEAN, rendered \in BOOLEAN :
        IF \/ subcommand.environment.some /\ subcommand.environment.v \notin Environments
           \/ subcommand.request_id \notin Recipes
           \/ ~loaded
           \/ ~rendered
        THEN main_pc' = "done" /\ main_result' = "err_build"
        ELSE main_pc' = "built" /\ UNCHANGED main_result
    /\ UNCHANGED <<subcommand, repository, record_id, calls, printed,
                   renderVars, keyVars, buildVars, ownedVars>>

\* the dry run: the request is printed
MainDryRun ==
    /\ main_pc = "built"
    /\ subcommand.dry_run
    /\ printed' = Append(printed, "request")
    /\ main_pc' = "done"
    /\ main_result' = "ok"
    /\ UNCHANGED <<subcommand, repository, record_id, calls, renderVars, keyVars, buildVars, ownedVars>>

\* add_request whose failure is not looked at
MainAddRequestIgnoreFailure ==
    /\ main_pc = "built"
    /\ ~subcommand.dry_run
    /\ \E added \in BOOLEAN :
        IF added
        THEN /\ repository' = Append(repository,
                                 NewRecord(Len(repository) + 1, subcommand.request_id))
             /\ record_id' = Len(repository) + 1
             /\ calls' = Append(calls, "add_request")
             /\ main_pc' = "await"
             /\ UNCHANGED main_result
        ELSE /\ calls' = Append(calls, "add_request failed")
             /\ main_pc' = "await"
             /\ UNCHANGED <<repository, record_id, main_result>>
    /\ UNCHANGED <<subcommand, printed, renderVars, keyVars, buildVars, ownedVars>>

\* add_request that writes a response with the request
MainAddRequestWithResponse ==
    /\ main_pc = "built"
    /\ ~subcommand.dry_run
    /\ \E added \in BOOLEAN :
        IF added
        THEN /\ repository' = Append(repository,
                                 [NewRecord(Len(repository) + 1, subcommand.request_id)
                                     EXCEPT !.response = "ok"])
             /\ record_id' = Len(repository) + 1
             /\ calls' = Append(calls, "add_request")
             /\ main_pc' = "await"
             /\ UNCHANGED main_result
        ELSE /\ calls' = Append(calls, "add_request failed")
             /\ main_pc' = "done"
             /\ main_result' = "err_add_request"
             /\ UNCHANGED <<repository, record_id>>
    /\ UNCHANGED <<subcommand, printed, renderVars, keyVars, buildVars, ownedVars>>

\* the future of the send is made, not yet polled, and the request is
\* registered: the new record gets its id; a failure is returned, and the
\* future is dropped as it is
MainAddRequest ==
    /\ main_pc = "built"
    /\ ~subcommand.dry_run
    /\ \E added \in BOOLEAN :
        IF added
        THEN /\ repository' = Append(repository,
                                 NewRecord(Len(repository) + 1, subcommand.request_id))
             /\ record_id' = Len(repository) + 1
             /\ calls' = Append(calls, "add_request")
             /\ main_pc' = "await"
             /\ UNCHANGED main_result
        ELSE /\ calls' = Append(calls, "add_request failed")
             /\ main_pc' = "done"
             /\ main_result' = "err_add_request"
             /\ UNCHANGED <<repository, record_id>>
    /\ UNCHANGED <<subcommand, printed, renderVars, keyVars, buildVars, ownedVars>>

\* future.await polls the future: the request goes on the wire
MainLaunch ==
    /\ main_pc = "await"
    /\ calls' = Append(calls, "launch")
    /\ main_pc' = "sent"
    /\ UNCHANGED <<subcommand, repository, record_id, printed, main_result,
                   renderVars, keyVars, buildVars, ownedVars>>

\* the record with the response written into it
WithResponse(records, id, response) ==
    [i \in 1..Len(records) |->
        IF records[i].id = id THEN [records[i] EXCEPT !.response = response] ELSE records[i]]

\* the arm Ok(response): the body is printed, then the response is written
\* to the record; a failure of the write is returned
MainResponse ==
    /\ main_pc = "sent"
    /\ printed' = Append(printed, "body")
    /\ main_pc' = "done"
    /\ \E written \in BOOLEAN :
        IF written
        THEN /\ repository' = WithResponse(repository, record_id, "ok")
             /\ calls' = calls \o <<"response", "add_response">>
             /\ main_result' = "ok"
        ELSE /\ calls' = calls \o <<"response", "add_response failed">>
             /\ main_result' = "err_add_response"
             /\ UNCHANGED repository
    /\ UNCHANGED <<subcommand, record_id, renderVars, keyVars, buildVars, ownedVars>>

\* the arm Err(err) that returns the error at once
MainErrorNoRecord ==
    /\ main_pc = "sent"
    /\ main_pc' = "done"
    /\ main_result' = "err_http"
    /\ calls' = Append(calls, "error")
    /\ UNCHANGED <<repository, subcommand, record_id, printed, renderVars, keyVars, buildVars, ownedVars>>

\* the arm Err(err): the error is written to the record, a failure of the
\* write is traced and dropped, and the error of the send is returned
MainError ==
    /\ main_pc = "sent"
    /\ main_pc' = "done"
    /\ main_result' = "err_http"
    /\ \E written \in BOOLEAN :
        IF written
        THEN /\ repository' = WithResponse(repository, record_id, "err")
             /\ calls' = calls \o <<"error", "add_response">>
        ELSE /\ calls' = calls \o <<"error", "add_response failed">>
             /\ UNCHANGED repository
    /\ UNCHANGED <<subcommand, record_id, printed, renderVars, keyVars, buildVars, ownedVars>>

\* the records earlier runs have left: complete ones and ones whose send
\* never got an outcome
EarlierRecords ==
    UNION {{[i \in 1..n |-> [id |-> i, recipe |-> recipe[i], response |-> response[i]]] :
               recipe \in [1..n -> Recipes], response \in [1..n -> {"none", "ok", "err"}]} :
           n \in 0..MaxRecords}

\* the subcommand on a collection of two recipes and two environments
InitMain ==
    /\ subcommand \in [request_id : RecipeIds, environment : EnvironmentIds, dry_run : BOOLEAN]
    /\ main_pc = "start"
    /\ repository \in EarlierRecords
    /\ record_id = 0
    /\ calls = <<>>
    /\ printed = <<>>
    /\ main_result = "running"
    /\ NoRender
    /\ NoParseCall
    /\ NoBuild
    /\ NoOwned

NextMain ==
    \/ MainBuild
    \/ MainDryRun
    \/ MainAddRequest
    \/ MainLaunch
    \/ MainResponse
    \/ MainError

SpecMain == InitMain /\ [][NextMain]_vars

(***************************************************************************)
(* Properties of the records execute_subcommand writes                     *)
(***************************************************************************)
Called(call) == \E i \in 1..Len(calls) : calls[i] = call

\* the outcome the send has reached, "none" while it has reached none
SendOutcome == IF Called("response") THEN "ok" ELSE IF Called("error") THEN "err" ELSE "none"

\* the records that carry the id add_request has returned
OwnRecords == {i \in 1..Len(repository) : record_id # 0 /\ repository[i].id = record_id}

\* C14 as stated: once the send has reached an outcome and the arm of the
\* match has run, the repository holds a record of the attempt that carries
\* that outcome
C14_OutcomeRecorded ==
    SendOutcome # "none"
        => \E i \in OwnRecords : repository[i].response = SendOutcome

\* C14: once the send has reached an outcome and the arm of the match has
\* run, the repository holds one record of the attempt, add_response has
\* been called for it, and the record carries the outcome when that call
\* succeeded and no outcome when it failed; a send that failed returns its
\* own error either way, a send that succeeded returns the error of a
\* failed write
C14_OutcomeRecordedIfWritten ==
    SendOutcome # "none"
        => /\ Cardinality(OwnRecords) = 1
           /\ Called("add_response") # Called("add_response failed")
           /\ \A i \in OwnRecords :
                repository[i].response = IF Called("add_response") THEN SendOutcome ELSE "none"
           /\ main_result = IF SendOutcome = "err" THEN "err_http"
                            ELSE IF Called("add_response") THEN "ok" ELSE "err_add_response"

\* a send has failed and its record, added to earlier ones, reports the
\* failure
C14_Witness ==
    /\ SendOutcome = "err"
    /\ Called("add_response")
    /\ Len(repository) >= 2
    /\ \E i \in OwnRecords : repository[i].response = "err"
    /\ main_result = "err_http"

\* C15: the request goes on the wire only after add_request has succeeded;
\* from then on, whether or not the send ever reaches an outcome, the
\* repository holds one record under the id returned; and when add_request
\* fails, the error is returned, no record is added and the request never
\* goes on the wire
C15_RegisteredBeforeSend ==
    /\ \A i \in 1..Len(calls) :
          calls[i] = "launch" => \E j \in 1..(i - 1) : calls[j] = "add_request"
    /\ main_pc \in {"await", "sent"}
          => /\ Cardinality(OwnRecords) = 1
             /\ \A i \in OwnRecords : repository[i] = NewRecord(record_id, subcommand.request_id)
    /\ Called("add_request failed")
          => /\ ~Called("launch")
             /\ main_pc = "done"
             /\ main_result = "err_add_request"
             /\ record_id = 0
             /\ OwnRecords = {}

\* the request is on the wire with no outcome yet, and its record is in
\* the repository
C15_Witness ==
    /\ main_pc = "sent"
    /\ SendOutcome = "none"
    /\ calls = <<"add_request", "launch">>
    /\ repository # <<>> /\ repository[Len(repository)].id = record_id

\* add_request has failed and execute_subcommand has returned
C15_WitnessFailed ==
    /\ calls = <<"add_request failed">>
    /\ main_pc = "done"

\* C16 as stated: the repository holds a record of the attempt only once
\* the outcome of the send is known
C16_NoRecordBeforeOutcome ==
    OwnRecords # {} => SendOutcome # "none"

\* C16: a step either leaves a record as it is or writes, whole, the
\* response of the record of this attempt, which had none, and it does so
\* only once the send has reached its outcome, with that outcome; and the
\* one record a step adds is the record of the request, without a response,
\* added before the request goes on the wire
C16_OutcomeWrittenOnce ==
    [][/\ Len(repository') >= Len(repository)
       /\ \A i \in 1..Len(repository) :
            \/ repository'[i] = repository[i]
            \/ /\ i \in OwnRecords
               /\ repository[i].response = "none"
               /\ SendOutcome' # "none"
               /\ repository'[i] = [repository[i] EXCEPT !.response = SendOutcome']
       /\ Len(repository') > Len(repository)
            => /\ repository' = Append(repository,
                                    NewRecord(Len(repository) + 1, subcommand.request_id))
               /\ ~Called("launch")'
               /\ SendOutcome' = "none"
      ]_vars

\* the response of a send has been written to the record that was added
\* without one, the earlier records left as they were
C16_Witness ==
    /\ calls = <<"add_request", "launch", "response", "add_response">>
    /\ Len(repository) >= 2
    /\ repository[1].response = "none"
    /\ repository[Len(repository)] =
          [NewRecord(record_id, subcommand.request_id) EXCEPT !.response = "ok"]

(***************************************************************************)
(* TemplateError::into_owned on every borrowed error                       *)
(***************************************************************************)
\* the buffer the references point into: the head of a template
BufferText == <<"{", "{", "c", "h", "a", "i", "n", "s", ".", "a", "}", "}">>
Buffer == SubSeq(BufferText, 1, MaxBuffer)
\* every byte range of the buffer
StrRefs == {ref \in {StrRef(Buffer, from, to) : from \in 0..MaxBuffer, to \in 0..MaxBuffer} :
               ref.from <= ref.to}

\* the errors the variants wrap, two of each kind
ParseErrors == {"ParseError 1", "ParseError 2"}
JsonErrors == {"serde_json::Error 1", "serde_json::Error 2"}
ExactlyOneErrors == {"ExactlyOneError::Empty", "ExactlyOneError::MoreThanOne"}
AnyhowErrors == {"anyhow::Error 1", "anyhow::Error 2"}

Variants == {"InvalidKey", "FieldUnknown", "ChainUnknown", "ChainNoResponse",
             "ChainJsonPath", "ChainJsonResponse", "ChainInvalidResult", "History"}

\* every value of TemplateError<&str> over the buffer
BorrowedErrors ==
    {BorrowedError(v, s, NoRef, NoSource) :
        v \in {"InvalidKey", "FieldUnknown", "ChainUnknown", "ChainNoResponse"}, s \in StrRefs}
    \cup {BorrowedError("ChainJsonPath", s, path, e) :
            s \in StrRefs, path \in StrRefs, e \in ParseErrors}
    \cup {BorrowedError("ChainJsonResponse", s, NoRef, e) : s \in StrRefs, e \in JsonErrors}
    \cup {BorrowedError("ChainInvalidResult", s, NoRef, e) :
            s \in StrRefs, e \in ExactlyOneErrors}
    \cup {BorrowedError("History", NoRef, NoRef, e) : e \in AnyhowErrors}

CallIntoOwned ==
    /\ owned = NotConverted
    /\ owned' = into_owned(borrowed)
    /\ UNCHANGED <<borrowed, renderVars, keyVars, buildVars, mainVars>>

InitOwned ==
    /\ borrowed \in BorrowedErrors
    /\ owned = NotConverted
    /\ NoRender
    /\ NoParseCall
    /\ NoBuild
    /\ NoMain

NextOwned == CallIntoOwned

SpecOwned == InitOwned /\ [][NextOwned]_vars

\* the text a reference stands for, read byte by byte from its buffer
Text(ref) == [i \in 1..(ref.to - ref.from) |-> ref.buf[ref.from + i]]

\* C17: into_owned returns an error for every borrowed error, of the same
\* variant, whose strings are, field by field, the texts the borrowed ones
\* stand for, and whose wrapped error is the one the borrowed error wrapped
C17_IntoOwnedLossless ==
    owned # NotConverted
        => /\ owned.variant \in Variants
           /\ owned.variant = borrowed.variant
           /\ owned.s = Text(borrowed.s)
           /\ owned.path = Text(borrowed.path)
           /\ owned.error = borrowed.error

\* a ChainJsonPath error whose chain id and path are different texts has
\* been converted
C17_Witness ==
    /\ owned # NotConverted
    /\ borrowed.variant = "ChainJsonPath"
    /\ Text(borrowed.s) # <<>>
    /\ Text(borrowed.path) # <<>>
    /\ Text(borrowed.s) # Text(borrowed.path)
    /\ owned.path = Text(borrowed.path)

(***************************************************************************)
(* Properties of the scan of a template                                    *)
(***************************************************************************)
\* t is an occurrence of "{{ ... }}": "{{", a text without braces, "}}"
IsOccurrence(t) ==
    /\ Len(t) >= 4
    /\ t[1] = "{" /\ t[2] = "{" /\ t[Len(t) - 1] = "}" /\ t[Len(t)] = "}"
    /\ \A k \in 3..(Len(t) - 2) : t[k] \notin {"{", "}"}

\* the inner text of an occurrence, without the spaces around it
Inner(t) ==
    LET body == {k \in 3..(Len(t) - 2) : t[k] \notin WhiteSpace}
    IN  IF body = {} THEN <<>>
        ELSE SubSeq(t, CHOOSE k \in body : \A l \in body : k <= l,
                       CHOOSE k \in body : \A l \in body : l <= k)

IsIdentifier(s) == s # <<>> /\ \A k \in 1..Len(s) : s[k] \in KeyChars \ {"."}

IsChainKey(s) ==
    /\ Len(s) > Len(CHAINS) + 1
    /\ SubSeq(s, 1, Len(CHAINS)) = CHAINS
    /\ s[Len(CHAINS) + 1] = "."
    /\ IsIdentifier(SubSeq(s, Len(CHAINS) + 2, Len(s)))

IsKeyText(s) == s # <<>> /\ \A k \in 1..Len(s) : s[k] \in KeyChars

\* the first position >= i of s that holds a brace, Len(s) + 1 when none
RECURSIVE NextBrace(_, _)
NextBrace(s, i) == IF i > Len(s) \/ s[i] \in {"{", "}"} THEN i ELSE NextBrace(s, i + 1)

\* the occurrences of a template, as pairs of positions: an occurrence that
\* starts at i ends with the first braces after its "{{"
Occurrences(s) ==
    {ij \in {<<i, NextBrace(s, i + 2) + 1>> : i \in 1..Len(s)} :
        ij[2] <= Len(s) /\ IsOccurrence(SubSeq(s, ij[1], ij[2]))}

Contains(s, sub) == \E k \in 0..(Len(s) - Len(sub)) : SubSeq(s, k + 1, k + Len(sub)) = sub

C18_WitnessInvalidKey ==
    /\ pc = "done"
    /\ result = Err(InvalidKey(<<"a", ".", "b">>))

\* the text between the captures of a template and the given values, put
\* together from offset from on: values[k] stands for the next capture
RECURSIVE Interleave(_, _, _, _)
Interleave(s, from, values, k) ==
    LET m == FindMatch(s, from)
    IN  IF ~m.found \/ k > Len(values) THEN Slice(s, from, Len(s))
        ELSE Slice(s, from, m.start) \o values[k] \o Interleave(s, m.end, values, k + 1)

\* C20: the captures a render has handled when it returns are captures of
\* the template, never of a value it has put in: there are no more of them
\* than the template has, and each is the template's capture of that
\* position; and the output of a render that succeeds is the template with
\* each capture replaced by its value as it is, so a value that holds a
\* placeholder is in the output with the placeholder in it
C20_ValuesNotRescanned ==
    pc = "done"
        => LET raws == AllCaptures(template, 0)
               values == [i \in 1..Len(resolved) |-> resolved[i].res.val]
           IN  /\ Len(resolved) <= Len(raws)
               /\ \A i \in 1..Len(resolved) : resolved[i].raw = raws[i]
               /\ result.ok
                     => /\ Len(resolved) = Len(raws)
                        /\ result.val = Interleave(template, 0, values, 1)
                        /\ \A i \in 1..Len(resolved) : Contains(result.val, values[i])

\* a render has put in a value that holds the placeholder of a field the
\* context defines, and has returned it with the placeholder in it
C20_Witness ==
    /\ pc = "done" /\ result.ok
    /\ \E i \in 1..Len(resolved) :
          /\ resolved[i].res.val = <<"{", "{", "a", "}", "}">>
          /\ get_field(context, FieldA).ok
    /\ Contains(result.val, <<"{", "{", "a", "}", "}">>)
    /\ Len(result.val) > 5

====
